---- MODULE Spec2Model ----
(***************************************************************************)
(* A model of the playback backend BackendV2 (gstreamer_internals/         *)
(* backend_v2.rs), the default methods of GstreamerBackendFramework        *)
(* (backend_framework.rs) and VidioPlayer::update_frame, which polls it    *)
(* every UI frame (gui/player.rs).                                         *)
(*                                                                         *)
(* The backend struct is the record `backend`; the wrapped GStreamer       *)
(* pipeline is the record `pipeline` (the state it was last asked for and  *)
(* accepted, and its playback position); the crossbeam channel             *)
(* between the appsink callback and update() is `update_receiver`.         *)
(* Every trait method is one action.  A method body is an operator on a    *)
(* "world" record (self, pipeline, rx, issued, ret) so that the            *)
(* statements of the Rust body, `?` early returns included, are applied in *)
(* source order.  Whether the pipeline accepts a request is an input of    *)
(* the action.                                                             *)
(*                                                                         *)
(* Time is counted in ticks of 1/TicksPerSecond s; the pipeline moves one  *)
(* tick per sample.                                                        *)
(*                                                                         *)
(* Spec is the backend under its playback calls and the frame callback.    *)
(* SpecProbe adds the probe thread's exit, by return or by panic, and      *)
(* get_probe; SpecVolume is the backend under set_volume, SpecFrames the   *)
(* backward frame step over a range of cached timecodes, SpecStale the     *)
(* replacement of the backend by open_uri together with TaskOrData         *)
(* (gstreamer_internals/prober.rs), SpecTeardown the ways a backend ceases *)
(* to exist, SpecAudio the audio-device methods on the targets the crate   *)
(* may be built for, SpecChannel the frame channel with the frames that    *)
(* were produced and delivered recorded, SpecFresh a backend that is only  *)
(* polled after init, SpecFetch a queued fetch polled to completion,       *)
(* SpecI32 the backward frame step over the i32 range, SpecTask a          *)
(* TaskOrData with the values check() announced recorded, SpecFlags the    *)
(* play-flag toggles, and SpecGui the frames VidioPlayer::show draws, with *)
(* the fullscreen state of the window.                                     *)
(***************************************************************************)
EXTENDS Integers, Sequences, FiniteSets, TLC

\* ---------------------------------------------------------------- bounds
\* Length of the media in ticks: the pipeline produces frames at positions
\* 0 .. MaxPos-1.
MaxPos == 2
\* Largest |frames| passed to seek_frames.
MaxStep == 1
\* Largest cached timecode, in ticks, from which frames are stepped back
\* (InitFrames).
MaxTimecode == 4
\* Largest N of the backward steps seek_frames(-N) taken from there.
MaxBack == 3
\* Number of VidioPlayer::open_uri calls.
MaxOpens == 1
\* Number of tasks started on the TaskOrData.
MaxTasks == 2
\* Number of samples the appsink callback pulls while they are recorded.
MaxFrames == 3
\* The largest magnitude, in ticks, of a time computed in f64: products are
\* exact up to it and saturate there.  It lies far beyond every timecode, so
\* a saturated time is told from a timecode by its sign.
FarTime == 1073741824

\* ------------------------------------------------------------- constants
\* crossbeam_channel::bounded(1)
ChannelCapacity == 1
\* get_frametime's default frame rate when no info is cached (1.0 / 30.0)
DefaultFps == 30
\* the model's time unit is half the default frame time (1/60 s), so that
\* the frame times of 30 and 60 fps are whole ticks
TicksPerSecond == 2 * DefaultFps
\* playback_speed: 1.0 at init, in percent
InitSpeed == 100
\* current_volume: 2.5 at init; volumes are in tenths
InitVolume == 25
\* the `volume` property of a freshly made GStreamer volume element: 1.0
ElementDefaultVolume == 10

\* The media played: the sample at position p carries a VideoInfo, here its
\* frame rate; the first sample's differs from the later ones' (the caps
\* change in mid-stream), so that a stale info is told from the latest.
StreamInfo(p) == IF p = 0 THEN DefaultFps ELSE 2 * DefaultFps

\* FrameUpdate::from_sample: the sample's pts and the VideoInfo of its caps
from_sample(p) == [timecode |-> p, info |-> StreamInfo(p)]
\* speeds offered to change_playback_speed, in percent
Speeds == {100, 200}
\* the SeekFlags sets passed to seek_time
SeekFlagSets == {"FLUSH", "FLUSH|ACCURATE"}

None == <<>>
Some(x) == <<x>>

\* A u32 word is the set of the positions 0 .. 31 of its bits that are 1.
WordBits == 0 .. 31
\* 1 << i
Bit(i) == {i}
\* a | b, a & b, !a on u32
bitor(a, b) == a \cup b
bitand(a, b) == a \cap b
bitnot(a) == WordBits \ a

\* struct PlayFlags (backend_framework.rs)
PlayFlags ==
  [VIDEO |-> Bit(0), AUDIO |-> Bit(1), SUBTITLES |-> Bit(2), VIS |-> Bit(3),
   SOFT_VOLUME |-> Bit(4), NATIVE_AUDIO |-> Bit(5), NATIVE_VIDEO |-> Bit(6),
   DOWNLOAD |-> Bit(7), BUFFERING |-> Bit(8), DEINTERLACE |-> Bit(9),
   SOFT_COLORBALANCE |-> Bit(10), FORCE_FILTERS |-> Bit(11), FORCE_SW_DECODERS |-> Bit(12)]

\* The `flags` property of a new playbin, which init leaves as the engine
\* made it: video, audio, text, soft-volume, deinterlace, soft-colorbalance.
DefaultPlayFlags ==
  bitor(PlayFlags.VIDEO, bitor(PlayFlags.AUDIO, bitor(PlayFlags.SUBTITLES,
  bitor(PlayFlags.SOFT_VOLUME, bitor(PlayFlags.DEINTERLACE, PlayFlags.SOFT_COLORBALANCE)))))

\* Result<T>
Ok(v) == [ok |-> TRUE, v |-> v]
Err(e) == [ok |-> FALSE, err |-> e]

\* Probe::from_uri: the Probe of the uri (of its fields the uri is kept, the
\* stream lists are not), or the discoverer's error; which of the two is
\* the media's doing (`discovered`).
from_uri(uri, discovered) ==
  IF discovered THEN Ok([uri |-> uri])
  ELSE Err([msg |-> "discovery failed", uri |-> uri])

\* Probe::from_uri_future: a thread that runs from_uri(uri)
from_uri_future(uri) == [st |-> "Running", uri |-> uri]

\* ------------------------------------------------------------ variables
VARIABLES
  backend,          \* the BackendV2 struct
  pipeline,         \* the wrapped playbin: requested state and position
  update_receiver,  \* the bounded frame channel
  call,             \* the last call made on the backend (history)
  ret,              \* what that call returned
  issued,           \* the requests that call sent to the pipeline, in order
  status,           \* "live", or "panicked" once a call has panicked
  probe_thread,     \* the thread spawned by Probe::from_uri_future
  detached,         \* the probe threads of the backends open_uri dropped
  task,             \* a TaskOrData<R> (prober.rs)
  task_threads,     \* the threads its start_task spawned; a JoinHandle is an index
  target_os,        \* cfg(target_os) of the build
  produced,         \* the samples the appsink callback pulled, in order (history)
  delivered,        \* the frames update() returned, in order (history)
  announced,        \* the values check() returned as JustBecameAvailable (history)
  temp_settings,    \* VidioPlayer::temp_settings (gui/player.rs)
  viewport          \* the window: the last ViewportCommand::Fullscreen sent

vars == <<backend, pipeline, update_receiver, call, ret, issued, status, probe_thread,
          detached, task, task_threads, target_os, produced, delivered, announced,
          temp_settings, viewport>>

\* the player's window state
gui == <<temp_settings, viewport>>

\* the build target, the histories and the window state
extras == <<target_os, produced, delivered, announced, gui>>

\* what the methods of BackendV2 leave alone
others == <<detached, task, task_threads, extras>>

\* ------------------------------------------------------------ results
OkRet == [kind |-> "Ok"]
FrameRet(f) == [kind |-> "Frame", frame |-> f]
ErrRet(e) == [kind |-> "Err", err |-> e]
PanicRet == [kind |-> "Panic"]

IsErr(w) == w.ret.kind = "Err"

\* ------------------------------------------------- the pipeline (playbin)
\* pipeline.set_state(st)?: the request is logged; an accepted request
\* becomes the pipeline's requested state, a rejected one is an Err.
set_state(w, st, ok) ==
  LET w1 == [w EXCEPT !.issued = Append(@, [req |-> "set_state", state |-> st, ok |-> ok])]
  IN IF ok THEN [w1 EXCEPT !.pipeline.state = st, !.ret = OkRet]
           ELSE [w1 EXCEPT !.ret = ErrRet("StateChangeError")]

\* pipeline.seek(rate, flags, Set, pos, None, NONE)?
seek(w, rate, flags, pos, ok) ==
  LET w1 == [w EXCEPT !.issued = Append(@, [req |-> "seek", rate |-> rate, flags |-> flags,
                                             pos |-> pos, ok |-> ok])]
  IN IF ok THEN [w1 EXCEPT !.pipeline.position = pos, !.ret = OkRet]
           ELSE [w1 EXCEPT !.ret = ErrRet("SeekError")]

\* ------------------------------------------------------ the frame channel
\* mutant of send_timeout: the message is queued whether or not there is room
send_unbounded(rx, msg) ==
  [rx |-> Append(rx, msg), ok |-> TRUE]

\* update_sender.send_timeout(msg, 500 ms) on the bounded channel: the
\* message is queued when there is room; with the channel full until the
\* timeout it is an Err and the message is dropped with it.  (A receive
\* during the wait is the receive taking place before the send.)
send_timeout(rx, msg) ==
  IF Len(rx) < ChannelCapacity THEN [rx |-> Append(rx, msg), ok |-> TRUE]
  ELSE [rx |-> rx, ok |-> FALSE]

\* The new_sample callback of the appsink: pull the sample at the pipeline's
\* position, make the FrameUpdate, send it or print "Frame sender timed
\* out 500ms"; FlowSuccess::Ok either way, and the pipeline moves on.
new_sample(pl, rx) ==
  LET up_info == from_sample(pl.position)
      s == send_timeout(rx, up_info)
  IN [pipeline |-> [pl EXCEPT !.position = @ + 1], rx |-> s.rx, sent |-> s.ok,
      up_info |-> up_info]

\* ------------------------------------------------------- BackendV2 methods
\* mutant of handle_update: the info is cached once, from the first frame
handle_update_caches_first_info(w, inny) ==
  [w EXCEPT !.self.latest_info = IF @ = None THEN Some(inny.info) ELSE @,
            !.self.latest_timecode = inny.timecode,
            !.ret = FrameRet(inny)]

handle_update(w, inny) ==
  [w EXCEPT !.self.latest_info = Some(inny.info),
            !.self.latest_timecode = inny.timecode,
            !.ret = FrameRet(inny)]

get_predicted_state(self) == self.target_state

\* mutant of start: the result of set_state is dropped (`let _ = ...`), so
\* a rejected request still counts as started
start_ignores_rejection(w, ok) ==
  [set_state(w, "Playing", ok) EXCEPT !.self.target_state = "Playing", !.ret = OkRet]

start(w, ok) ==
  LET w1 == set_state(w, "Playing", ok)
  IN IF IsErr(w1) THEN w1 ELSE [w1 EXCEPT !.self.target_state = "Playing", !.ret = OkRet]

\* mutant of stop: target_state is written before the pipeline is asked
stop_sets_target_first(w, ok) ==
  set_state([w EXCEPT !.self.target_state = "Paused"], "Paused", ok)

stop(w, ok) ==
  LET w1 == set_state(w, "Paused", ok)
  IN IF IsErr(w1) THEN w1 ELSE [w1 EXCEPT !.self.target_state = "Paused", !.ret = OkRet]

quit(w, ok) ==
  LET w1 == set_state(w, "Null", ok)
  IN IF IsErr(w1) THEN w1 ELSE [w1 EXCEPT !.self.target_state = "Null", !.ret = OkRet]

\* mutant of queue_frame_update: the flag is not set
queue_frame_update_forgets(w) ==
  [w EXCEPT !.ret = OkRet]

queue_frame_update(w) ==
  [w EXCEPT !.self.frame_queue_info.queued = TRUE, !.ret = OkRet]

\* mutant of try_recv: the frame at the head is read but left in the channel
try_recv_peeks(w) ==
  IF w.rx = <<>> THEN [w EXCEPT !.ret = ErrRet("ChannelEmpty")]
  ELSE [w EXCEPT !.ret = FrameRet(Head(w.rx))]

\* update_receiver.try_recv()?
try_recv(w) ==
  IF w.rx = <<>> THEN [w EXCEPT !.ret = ErrRet("ChannelEmpty")]
  ELSE [w EXCEPT !.rx = Tail(@), !.ret = FrameRet(Head(w.rx))]

\* The head of update(): the probe thread is collected once is_finished()
\* says it is done.  `fin` is the thread at the call: running, finished
\* with a result, or panicked; a thread that panicked makes join() an Err
\* and the unwrap() on it panic.
\* mutant of poll_probe: the result is copied out of the finished thread
\* but the handle is left in probe_future
poll_probe_keeps_handle(w, fin) ==
  IF w.self.probe_future # None THEN
    IF fin.st = "Running" THEN w
    ELSE IF fin.st = "Panicked" THEN [w EXCEPT !.self.probe_future = None, !.ret = PanicRet]
    ELSE [w EXCEPT !.self.probe = fin.result]
  ELSE w

\* mutant of poll_probe: the handle is taken and joined without asking
\* is_finished(), so a thread still running is waited for
poll_probe_joins_unfinished(w, fin) ==
  IF w.self.probe_future # None THEN
    IF fin.st = "Running" THEN [w EXCEPT !.self.probe_future = None]
    ELSE IF fin.st = "Panicked" THEN [w EXCEPT !.self.probe_future = None, !.ret = PanicRet]
    ELSE [w EXCEPT !.self.probe_future = None, !.self.probe = fin.result]
  ELSE w

\* mutant of poll_probe: the thread is joined and its result thrown away
poll_probe_discards_result(w, fin) ==
  IF w.self.probe_future # None THEN
    IF fin.st = "Running" THEN w
    ELSE IF fin.st = "Panicked" THEN [w EXCEPT !.self.probe_future = None, !.ret = PanicRet]
    ELSE [w EXCEPT !.self.probe_future = None]
  ELSE w

poll_probe(w, fin) ==
  IF w.self.probe_future # None THEN
    IF fin.st = "Running" THEN w
    ELSE IF fin.st = "Panicked" THEN [w EXCEPT !.self.probe_future = None, !.ret = PanicRet]
    ELSE [w EXCEPT !.self.probe_future = None, !.self.probe = fin.result]
  ELSE w

\* mutant of finish_fetch: queued is cleared and in_progress is not
finish_fetch_keeps_in_progress(w, upt, ok) ==
  LET w1 == [w EXCEPT !.self.frame_queue_info.queued = FALSE]
      st == w1.self.frame_queue_info.start_state
      w2 == IF st = "Paused" THEN stop(w1, ok)
            ELSE IF st = "Playing" THEN start(w1, ok)
            ELSE w1
  IN IF st \in {"Paused", "Playing"} /\ IsErr(w2) THEN w2
     ELSE handle_update(w2, upt)

\* the tail shared by both queued branches of update(): after a successful
\* receive clear the flags, restore start_state, hand the frame on
finish_fetch(w, upt, ok) ==
  LET w1 == [w EXCEPT !.self.frame_queue_info.in_progress = FALSE,
                      !.self.frame_queue_info.queued = FALSE]
      st == w1.self.frame_queue_info.start_state
      w2 == IF st = "Paused" THEN stop(w1, ok)
            ELSE IF st = "Playing" THEN start(w1, ok)
            ELSE w1   \* VoidPending | Null | Ready: only a println
  IN IF st \in {"Paused", "Playing"} /\ IsErr(w2) THEN w2
     ELSE handle_update(w2, upt)

\* mutant of update: the call that begins a fetch saves start_state after
\* start(), so it saves Playing
update_saves_state_late(w0, ok1, ok2, fin) ==
  LET w == poll_probe(w0, fin) IN
  IF w.ret.kind = "Panic" THEN w ELSE
  IF w.self.frame_queue_info.queued THEN
    IF w.self.frame_queue_info.in_progress THEN
      LET w1 == try_recv(w)
      IN IF IsErr(w1) THEN w1 ELSE finish_fetch(w1, w1.ret.frame, ok1)
    ELSE
      LET w1 == [w EXCEPT !.self.frame_queue_info.in_progress = TRUE]
          w2 == start(w1, ok1)
          w2b == [w2 EXCEPT !.self.frame_queue_info.start_state = get_predicted_state(w2.self)]
          w3 == try_recv(w2b)
      IN IF IsErr(w2) THEN w2
         ELSE IF IsErr(w3) THEN w3
         ELSE finish_fetch(w3, w3.ret.frame, ok2)
  ELSE
    LET w1 == try_recv(w)
    IN IF IsErr(w1) THEN w1 ELSE handle_update(w1, w1.ret.frame)

\* mutant of update: the in_progress branch clears the flags before the
\* receive instead of after it
update_clears_flags_early(w0, ok1, ok2, fin) ==
  LET w == poll_probe(w0, fin) IN
  IF w.ret.kind = "Panic" THEN w ELSE
  IF w.self.frame_queue_info.queued THEN
    IF w.self.frame_queue_info.in_progress THEN
      LET wc == [w EXCEPT !.self.frame_queue_info.in_progress = FALSE,
                          !.self.frame_queue_info.queued = FALSE]
          w1 == try_recv(wc)
      IN IF IsErr(w1) THEN w1 ELSE finish_fetch(w1, w1.ret.frame, ok1)
    ELSE
      LET w1 == [w EXCEPT !.self.frame_queue_info.in_progress = TRUE,
                          !.self.frame_queue_info.start_state = get_predicted_state(w.self)]
          w2 == start(w1, ok1)
          w3 == try_recv(w2)
      IN IF IsErr(w2) THEN w2
         ELSE IF IsErr(w3) THEN w3
         ELSE finish_fetch(w3, w3.ret.frame, ok2)
  ELSE
    LET w1 == try_recv(w)
    IN IF IsErr(w1) THEN w1 ELSE handle_update(w1, w1.ret.frame)

update(w0, ok1, ok2, fin) ==
  LET w == poll_probe(w0, fin) IN
  IF w.ret.kind = "Panic" THEN w ELSE
  IF w.self.frame_queue_info.queued THEN
    IF w.self.frame_queue_info.in_progress THEN
      LET w1 == try_recv(w)
      IN IF IsErr(w1) THEN w1 ELSE finish_fetch(w1, w1.ret.frame, ok1)
    ELSE
      LET w1 == [w EXCEPT !.self.frame_queue_info.in_progress = TRUE,
                          !.self.frame_queue_info.start_state = get_predicted_state(w.self)]
          w2 == start(w1, ok1)
          w3 == try_recv(w2)
      IN IF IsErr(w2) THEN w2
         ELSE IF IsErr(w3) THEN w3
         ELSE finish_fetch(w3, w3.ret.frame, ok2)
  ELSE
    LET w1 == try_recv(w)
    IN IF IsErr(w1) THEN w1 ELSE handle_update(w1, w1.ret.frame)

change_playback_speed(w, speed, ok) ==
  LET cp == w.self.latest_timecode
      w1 == [w EXCEPT !.self.playback_speed = speed]
      w2 == seek(w1, speed, "FLUSH", cp, ok)
  IN IF IsErr(w2) THEN w2 ELSE [w2 EXCEPT !.ret = OkRet]

\* mutant of seek_time: the seek is issued at rate 1.0, not at playback_speed
seek_time_at_unit_rate(w, seek_flags, seek_to, ok) ==
  LET w1 == seek(w, InitSpeed, seek_flags, seek_to, ok)
  IN IF IsErr(w1) THEN w1 ELSE [w1 EXCEPT !.ret = OkRet]

seek_time(w, seek_flags, seek_to, ok) ==
  LET w1 == seek(w, w.self.playback_speed, seek_flags, seek_to, ok)
  IN IF IsErr(w1) THEN w1 ELSE [w1 EXCEPT !.ret = OkRet]

\* mutant of seek_timeline: the in_progress guard is missing
seek_timeline_unguarded(w, seek_to, accurate, ok) ==
  LET w1 == seek(w, w.self.playback_speed,
                 IF accurate THEN "FLUSH" ELSE "FLUSH|KEY_UNIT", seek_to, ok)
  IN IF IsErr(w1) THEN w1 ELSE [w1 EXCEPT !.ret = OkRet]

seek_timeline(w, seek_to, accurate, ok) ==
  IF ~w.self.frame_queue_info.in_progress THEN
    LET w1 == seek(w, w.self.playback_speed,
                   IF accurate THEN "FLUSH" ELSE "FLUSH|KEY_UNIT", seek_to, ok)
    IN IF IsErr(w1) THEN w1 ELSE [w1 EXCEPT !.ret = OkRet]
  ELSE [w EXCEPT !.ret = OkRet]

\* mutant of get_probe: the cached Result is unwrapped
get_probe_unwraps(self) ==
  IF self.probe.ok THEN [kind |-> "Ok", value |-> self.probe.v] ELSE PanicRet

\* get_probe: Ok(&probe), or bail!("{err}"), an error with the message of
\* the cached one
get_probe(self) ==
  IF self.probe.ok THEN [kind |-> "Ok", value |-> self.probe.v] ELSE ErrRet(self.probe.err)

get_latest_vidio_info(self) == self.latest_info

Abs(n) == IF n < 0 THEN -n ELSE n

\* i32
I32Max == 2147483647
I32Min == -I32Max - 1

\* i32::abs in a build without overflow checks: the absolute value, and for
\* i32::MIN, whose absolute value is 2^31, the wrapped 2^31 - 2^32 = i32::MIN
wrapping_abs(x) == IF x = I32Min THEN I32Min ELSE Abs(x)

\* frametime * (n as f64): the product in f64, frametime > 0
fmul(frametime, n) ==
  IF n > FarTime \div frametime THEN FarTime
  ELSE IF n < -(FarTime \div frametime) THEN -FarTime
  ELSE frametime * n
Max(a, b) == IF a >= b THEN a ELSE b
Min(a, b) == IF a <= b THEN a ELSE b

\* pipeline.send_event(Step(frames buffers)): the bool it returns is dropped
send_step_event(w, frames, ok) ==
  LET w1 == [w EXCEPT !.issued = Append(@, [req |-> "step", buffers |-> frames, ok |-> ok])]
  IN IF ok THEN [w1 EXCEPT !.pipeline.position = Min(MaxPos, @ + frames)] ELSE w1

\* mutant of get_frametime: the cached info is ignored and the default
\* frame time always used
get_frametime_default_only(self) ==
  TicksPerSecond \div DefaultFps

\* 1/fps of the latest info, 1/30 s without one, in ticks
get_frametime(self) ==
  IF get_latest_vidio_info(self) # None
  THEN TicksPerSecond \div get_latest_vidio_info(self)[1]
  ELSE TicksPerSecond \div DefaultFps

\* mutant of seek_frames: the zero arm is missing and 0 falls into the
\* forward arm (x >= 0)
seek_frames_zero_steps(w, frames, ok, overflow_checks) ==
  IF frames < 0 /\ overflow_checks /\ frames = I32Min THEN [w EXCEPT !.ret = PanicRet]
  ELSE IF frames < 0 THEN
    LET start_time == w.self.latest_timecode
        frametime == get_frametime(w.self)
        back_time == Max(start_time - fmul(frametime, wrapping_abs(frames)), 0)
        w1 == seek_time(w, "FLUSH", back_time, ok)
    IN IF IsErr(w1) THEN w1 ELSE [queue_frame_update(w1) EXCEPT !.ret = OkRet]
  ELSE
    [queue_frame_update(send_step_event(w, frames, ok)) EXCEPT !.ret = OkRet]

\* frames.abs() of i32::MIN overflows: with overflow checks (a debug build)
\* it panics, without them (a release build) it wraps; which of the two is
\* the build profile's, `overflow_checks`.
seek_frames(w, frames, ok, overflow_checks) ==
  IF frames = 0 THEN [w EXCEPT !.ret = PanicRet]
  ELSE IF frames < 0 /\ overflow_checks /\ frames = I32Min THEN [w EXCEPT !.ret = PanicRet]
  ELSE IF frames < 0 THEN
    LET start_time == w.self.latest_timecode
        frametime == get_frametime(w.self)
        back_time == Max(start_time - fmul(frametime, wrapping_abs(frames)), 0)
        w1 == seek_time(w, "FLUSH", back_time, ok)
    IN IF IsErr(w1) THEN w1 ELSE [queue_frame_update(w1) EXCEPT !.ret = OkRet]
  ELSE
    [queue_frame_update(send_step_event(w, frames, ok)) EXCEPT !.ret = OkRet]

timecode(self) == self.latest_timecode

get_current_volume(self) == self.current_volume

\* 0.0..=5.0, in tenths
get_volume_range(self) == [start |-> 0, end |-> 2 * InitVolume]

\* The range of the volume element's `volume` property (0.0 to 10.0).
\* volume.set_property("volume", to): a value in the property's range is
\* stored; for one outside it GObject's validation either refuses the value
\* (the property keeps its old one) or stores the nearest bound, which of
\* the two being the library's choice (`keeps`).
ElementVolumeRange == [start |-> 0, end |-> 10 * ElementDefaultVolume]

set_property_volume(w, to, keeps) ==
  IF ElementVolumeRange.start <= to /\ to <= ElementVolumeRange.end
  THEN [w EXCEPT !.pipeline.volume = to]
  ELSE IF keeps THEN w
  ELSE [w EXCEPT !.pipeline.volume = IF to < ElementVolumeRange.start
                                     THEN ElementVolumeRange.start
                                     ELSE ElementVolumeRange.end]

set_volume(w, to, keeps) ==
  LET w1 == [w EXCEPT !.self.current_volume = to]
      w2 == set_property_volume(w1, to, keeps)
  IN [w2 EXCEPT !.ret = OkRet]

current_playback_speed(self) == self.playback_speed

\* GstreamerBackendFramework::is_playing: matches!(State::Playing, _st).
\* The macro's first argument is the scrutinee and the second the pattern;
\* `_st` is an identifier pattern, which binds a fresh name to the
\* scrutinee, whatever get_predicted_state() returned.
is_playing(self) ==
  LET scrutinee == "Playing"
  IN \E _st \in {scrutinee} : TRUE

is_paused(self) ==
  LET scrutinee == "Paused"
  IN \E _st \in {scrutinee} : TRUE

\* VidioPlayer::update_frame: `if let Ok(update) = backend.update()` uploads
\* the frame; an Err of update() is discarded and Ok(()) returned
update_frame(w, ok1, ok2, fin) ==
  LET w1 == update(w, ok1, ok2, fin)
  IN [w1 EXCEPT !.ret = IF IsErr(w1) THEN OkRet ELSE w1.ret]

\* BackendV2::init: the struct literal over a fresh playbin (state Null), a
\* fresh channel, and the final stop()?
init(uri, ok) ==
  stop([self |-> [latest_info |-> None,
                  latest_timecode |-> 0,
                  target_state |-> "Null",
                  frame_queue_info |-> [queued |-> TRUE, start_state |-> "VoidPending",
                                        in_progress |-> FALSE],
                  playback_speed |-> InitSpeed,
                  probe |-> Err([msg |-> "Not initialized yet"]),
                  probe_future |-> Some("JoinHandle"),
                  current_volume |-> InitVolume,
                  current_audio_device |-> None],
        pipeline |-> [uri |-> uri, state |-> "Null", position |-> 0,
                      volume |-> ElementDefaultVolume, device |-> None,
                      flags |-> DefaultPlayFlags],
        rx |-> <<>>, issued |-> <<>>, ret |-> OkRet], ok)

\* mutant of drop: the backend is freed without quit()
drop_leaks(w, ok) ==
  [w EXCEPT !.ret = OkRet]

\* impl Drop for BackendV2: self.quit().unwrap()
drop(w, ok) ==
  LET w1 == quit(w, ok)
  IN IF IsErr(w1) THEN [w1 EXCEPT !.ret = PanicRet] ELSE w1

\* ------------------------------------------------------------ TaskOrData
\* Either<R, JoinHandle<R>>
Left(x) == [left |-> x]
Right(h) == [right |-> h]
IsLeft(inner) == inner # None /\ "left" \in DOMAIN inner[1]
IsRight(inner) == inner # None /\ "right" \in DOMAIN inner[1]

\* TaskOrData::default
TaskOrDataDefault == [inner |-> None, data_has_been_checked |-> FALSE]

\* TaskOrData::with_data
with_data(start_data) == [inner |-> Some(Left(start_data)), data_has_been_checked |-> FALSE]

\* The methods work on t = [self, threads, ret].
\* mutant of start_task: a task still running is kept and the new one is
\* spawned without being tracked
start_task_keeps_running(t, func) ==
  LET t1 == [t EXCEPT !.threads = Append(@, [st |-> "Running", func |-> func])]
  IN IF IsRight(t.self.inner) THEN [t1 EXCEPT !.ret = OkRet]
     ELSE [t1 EXCEPT !.self.inner = Some(Right(Len(t1.threads))), !.ret = OkRet]

start_task(t, func) ==
  LET t1 == IF IsRight(t.self.inner) THEN [t EXCEPT !.self.inner = None] ELSE t
      t2 == [t1 EXCEPT !.threads = Append(@, [st |-> "Running", func |-> func])]
  IN [t2 EXCEPT !.self.inner = Some(Right(Len(t2.threads))), !.ret = OkRet]

\* mutant of poll: after a panicked task the handle is kept in inner
poll_keeps_panicked(t) ==
  IF IsRight(t.self.inner) THEN
    LET in_progress == t.threads[t.self.inner[1].right]
    IN IF in_progress.st # "Running" THEN
         IF in_progress.st = "Finished"
         THEN [t EXCEPT !.self.inner = Some(Left(in_progress.result)), !.ret = OkRet]
         ELSE [t EXCEPT !.ret = ErrRet("panic payload")]
       ELSE [t EXCEPT !.ret = OkRet]
  ELSE [t EXCEPT !.ret = OkRet]

\* poll: in_progress.is_finished() is asked first; only a finished thread is
\* taken and joined, and join() gives its value or, after a panic, the Err
poll(t) ==
  IF IsRight(t.self.inner) THEN
    LET in_progress == t.threads[t.self.inner[1].right]
    IN IF in_progress.st # "Running" THEN
         IF in_progress.st = "Finished"
         THEN [t EXCEPT !.self.inner = Some(Left(in_progress.result)), !.ret = OkRet]
         ELSE [t EXCEPT !.self.inner = None, !.ret = ErrRet("panic payload")]
       ELSE [t EXCEPT !.ret = OkRet]
  ELSE [t EXCEPT !.ret = OkRet]

check(t) ==
  IF t.self.inner = None THEN
    [t EXCEPT !.self.data_has_been_checked = FALSE, !.ret = [kind |-> "NotInitialized"]]
  ELSE IF IsLeft(t.self.inner) THEN
    IF ~t.self.data_has_been_checked
    THEN [t EXCEPT !.self.data_has_been_checked = TRUE,
                   !.ret = [kind |-> "JustBecameAvailable", value |-> t.self.inner[1].left]]
    ELSE [t EXCEPT !.ret = [kind |-> "Available", value |-> t.self.inner[1].left]]
  ELSE
    [t EXCEPT !.self.data_has_been_checked = FALSE, !.ret = [kind |-> "InProgress"]]

reset(t) == [t EXCEPT !.self.inner = None, !.ret = OkRet]

\* --------------------------------------------------------- audio devices
\* The bodies of set_audio_device and list_audio_devices are two cfg blocks:
\* the Windows code, and for every other target compile_error!(...), which
\* stops the build of the crate (the bail!("... only works on windows") next
\* to it is commented out).  build is what the compiler makes of the crate.
build(os) == IF os = "windows" THEN "live" ELSE "compile_error"

\* Self::make_audio_sink(Some(device)): a new bin with a new volume element
\* and a wasapisink on the device; any ElementFactory build()? may fail
make_audio_sink(w, device, made) ==
  IF made THEN [w EXCEPT !.ret = OkRet] ELSE [w EXCEPT !.ret = ErrRet("ElementFactory")]

\* set_audio_device, cfg(target_os = "windows"): the pipeline goes to Null,
\* its audio-sink is replaced by a new bin (self.volume and self.audio_sink
\* now name the new elements), the pipeline is set back to target_state and
\* sought to latest_timecode
set_audio_device(w, device, ok1, made, ok2, ok3) ==
  LET w1 == set_state(w, "Null", ok1)
      w2 == make_audio_sink(w1, device, made)
      w3 == [w2 EXCEPT !.pipeline.volume = ElementDefaultVolume,
                       !.pipeline.device = Some(device)]
      w4 == set_state(w3, w3.self.target_state, ok2)
      w5 == seek_time(w4, "FLUSH|ACCURATE", w4.self.latest_timecode, ok3)
  IN IF IsErr(w1) THEN w1
     ELSE IF IsErr(w2) THEN w2
     ELSE IF IsErr(w4) THEN w4
     ELSE IF IsErr(w5) THEN w5
     ELSE [w5 EXCEPT !.self.current_audio_device = Some(device), !.ret = OkRet]

\* The loop of list_audio_devices over the DeviceCollection: an entry that
\* is an Err is skipped (`if let Ok(device)`), a device without a friendly
\* name or id ends the call with the context error.
RECURSIVE collect_devices(_, _)
collect_devices(entries, out) ==
  IF entries = <<>> THEN [kind |-> "Ok", value |-> out]
  ELSE LET res == Head(entries)
       IN IF ~res.ok THEN collect_devices(Tail(entries), out)
          ELSE IF res.name = None THEN ErrRet("Couldn't get friendly name")
          ELSE IF res.id = None THEN ErrRet("Couldn't get friendly id")
          ELSE collect_devices(Tail(entries), Append(out, <<res.name[1], res.id[1]>>))

\* list_audio_devices, cfg(target_os = "windows"); device_collection is
\* what wasapi::DeviceCollection::new gave: None for its Err
list_audio_devices(w, device_collection) ==
  IF device_collection = None THEN [w EXCEPT !.ret = ErrRet("Couldn't get collection")]
  ELSE [w EXCEPT !.ret = collect_devices(device_collection[1], <<>>)]

get_current_audio_device(self) == self.current_audio_device

\* ------------------------------------------------------------ play flags
\* mutant of toggle_playflag: the clearing arm lacks the `!` (flags &= flag)
toggle_playflag_keeps_only_flag(w, set_to, flag) ==
  LET flags == IF set_to THEN bitor(w.pipeline.flags, flag)
               ELSE bitand(w.pipeline.flags, flag)
  IN [w EXCEPT !.pipeline.flags = flags, !.ret = OkRet]

\* toggle_playflag: g_object_get of the pipeline's "flags" into a u32,
\* flags |= flag or flags &= !flag, g_object_set of the word
toggle_playflag(w, set_to, flag) ==
  LET flags == IF set_to THEN bitor(w.pipeline.flags, flag)
               ELSE bitand(w.pipeline.flags, bitnot(flag))
  IN [w EXCEPT !.pipeline.flags = flags, !.ret = OkRet]

\* get_playflag_state: (flags & flag) != 0
get_playflag_state(w, flag) ==
  [kind |-> "Ok", value |-> bitand(w.pipeline.flags, flag) # {}]

\* ------------------------------------------------------------ the player
\* TempSettings::default (lazy_bastard!): both false
TempSettingsDefault == [is_fullscreen |-> FALSE, queued_fullscreen_state |-> FALSE]

\* the window of a fresh application is not fullscreen
ViewportDefault == [fullscreen |-> FALSE]

\* VidioPlayer::set_fullscreen
set_fullscreen(ts, to) ==
  IF ts.is_fullscreen # to THEN [ts EXCEPT !.queued_fullscreen_state = to] ELSE ts

\* manage_fullscreen_state: a queued state that differs from the current
\* one becomes the current one and is sent to the window
manage_fullscreen_state(ts, vp) ==
  IF ts.queued_fullscreen_state # ts.is_fullscreen
  THEN [temp_settings |-> [ts EXCEPT !.is_fullscreen = ts.queued_fullscreen_state],
        viewport |-> [fullscreen |-> ts.queued_fullscreen_state]]
  ELSE [temp_settings |-> ts, viewport |-> vp]

\* the "Fullscreen" buttons of the tools menu and the double click on the
\* picture: queued_fullscreen_state = !queued_fullscreen_state
toggle_queued_fullscreen(ts) ==
  [ts EXCEPT !.queued_fullscreen_state = ~@]

\* The pointer event a frame may bring to the widgets that deal with
\* fullscreen.
PointerEvents == {"none", "menu_fullscreen", "switch_fullscreen", "double_click"}

\* show_internal: manage_fullscreen_state, then the widgets.  The menu bar
\* is in the top panel and in the context menu of the picture; the bottom
\* panel with the SwitchFullscreenState button is laid out only when not
\* fullscreen; the picture takes the double click.
show_internal(ts, vp, event) ==
  LET m == manage_fullscreen_state(ts, vp)
      t == m.temp_settings
      t1 == IF event = "menu_fullscreen" THEN toggle_queued_fullscreen(t)
            ELSE IF event = "switch_fullscreen" /\ ~t.is_fullscreen
                 THEN set_fullscreen(t, ~t.is_fullscreen)
            ELSE IF event = "double_click" THEN toggle_queued_fullscreen(t)
            ELSE t
  IN [temp_settings |-> t1, viewport |-> m.viewport]

\* ------------------------------------------------------------ the state
World == [self |-> backend, pipeline |-> pipeline, rx |-> update_receiver,
          issued |-> <<>>, ret |-> OkRet]

\* the call c returns: what it did to the backend, the pipeline and the channel
CommitBackend(w, c) ==
  /\ backend' = w.self
  /\ pipeline' = w.pipeline
  /\ update_receiver' = w.rx
  /\ issued' = w.issued
  /\ ret' = w.ret
  /\ call' = c
  /\ status' = IF w.ret.kind = "Panic" THEN "panicked" ELSE status

Commit(w, c) ==
  /\ CommitBackend(w, c)
  /\ UNCHANGED <<probe_thread, others>>

\* BackendV2::init after its final stop()? returned Ok
Constructed ==
  /\ backend = [latest_info |-> None,
                latest_timecode |-> 0,
                target_state |-> "Paused",
                frame_queue_info |-> [queued |-> TRUE, start_state |-> "VoidPending",
                                      in_progress |-> FALSE],
                playback_speed |-> InitSpeed,
                probe |-> Err([msg |-> "Not initialized yet"]),
                probe_future |-> Some("JoinHandle"),
                current_volume |-> InitVolume,
                current_audio_device |-> None]
  /\ pipeline = [uri |-> 1, state |-> "Paused", position |-> 0,
                 volume |-> ElementDefaultVolume, device |-> None,
                 flags |-> DefaultPlayFlags]
  /\ update_receiver = <<>>
  /\ call = [op |-> "init"]
  /\ ret = OkRet
  /\ issued = <<[req |-> "set_state", state |-> "Paused", ok |-> TRUE]>>
  /\ probe_thread = from_uri_future(1)
  /\ detached = <<>>
  /\ task = TaskOrDataDefault
  /\ task_threads = <<>>
  /\ produced = <<>>
  /\ delivered = <<>>
  /\ announced = {}
  /\ temp_settings = TempSettingsDefault
  /\ viewport = ViewportDefault

\* the crate is built for Windows, the one target it compiles for
Init ==
  /\ Constructed
  /\ target_os = "windows"
  /\ status = build(target_os)

\* --------------------------------------------------------------- actions
Update ==
  /\ status = "live"
  /\ \E ok1, ok2 \in BOOLEAN :
       Commit(update(World, ok1, ok2, probe_thread), [op |-> "update"])

Start ==
  /\ status = "live"
  /\ \E ok \in BOOLEAN : Commit(start(World, ok), [op |-> "start"])

Stop ==
  /\ status = "live"
  /\ \E ok \in BOOLEAN : Commit(stop(World, ok), [op |-> "stop"])

Quit ==
  /\ status = "live"
  /\ \E ok \in BOOLEAN : Commit(quit(World, ok), [op |-> "quit"])

QueueFrameUpdate ==
  /\ status = "live"
  /\ Commit(queue_frame_update(World), [op |-> "queue_frame_update"])

ChangePlaybackSpeed ==
  /\ status = "live"
  /\ \E speed \in Speeds, ok \in BOOLEAN :
       Commit(change_playback_speed(World, speed, ok),
              [op |-> "change_playback_speed", speed |-> speed])

SeekTime ==
  /\ status = "live"
  /\ \E seek_flags \in SeekFlagSets, seek_to \in 0 .. MaxPos - 1, ok \in BOOLEAN :
       Commit(seek_time(World, seek_flags, seek_to, ok),
              [op |-> "seek_time", seek_flags |-> seek_flags, seek_to |-> seek_to])

SeekTimeline ==
  /\ status = "live"
  /\ \E seek_to \in 0 .. MaxPos - 1, accurate \in BOOLEAN, ok \in BOOLEAN :
       Commit(seek_timeline(World, seek_to, accurate, ok),
              [op |-> "seek_timeline", seek_to |-> seek_to, accurate |-> accurate])

SeekFrames ==
  /\ status = "live"
  /\ \E frames \in -MaxStep .. MaxStep, ok, overflow_checks \in BOOLEAN :
       Commit(seek_frames(World, frames, ok, overflow_checks),
              [op |-> "seek_frames", frames |-> frames])

\* the appsink new_sample callback: runs on the pipeline's streaming thread
\* while the pipeline plays; send_timeout either hands the frame over or,
\* with the channel still full after 500 ms, drops it
NewSampleSend ==
  /\ status = "live"
  /\ pipeline.state = "Playing"
  /\ pipeline.position < MaxPos
  /\ LET n == new_sample(pipeline, update_receiver)
     IN /\ n.sent
        /\ update_receiver' = n.rx
        /\ pipeline' = n.pipeline
  /\ UNCHANGED <<backend, call, ret, issued, status, probe_thread, others>>

NewSampleTimeout ==
  /\ status = "live"
  /\ pipeline.state = "Playing"
  /\ pipeline.position < MaxPos
  /\ LET n == new_sample(pipeline, update_receiver)
     IN /\ ~n.sent
        /\ update_receiver' = n.rx
        /\ pipeline' = n.pipeline
  /\ UNCHANGED <<backend, call, ret, issued, status, probe_thread, others>>

\* the probe thread returns from Probe::from_uri
ProbeThreadExit ==
  /\ probe_thread.st = "Running"
  /\ \E discovered \in BOOLEAN :
       probe_thread' = [st |-> "Finished", result |-> from_uri(probe_thread.uri, discovered)]
  /\ UNCHANGED <<backend, pipeline, update_receiver, call, ret, issued, status, others>>

Next ==
  \/ Update
  \/ Start
  \/ Stop
  \/ Quit
  \/ QueueFrameUpdate
  \/ ChangePlaybackSpeed
  \/ SeekTime
  \/ SeekTimeline
  \/ SeekFrames
  \/ NewSampleSend
  \/ NewSampleTimeout

\* The backend under its playback calls and the frame callback, while the
\* probe thread is still running (discovery may take its whole timeout).
\* The probe is written by the head of update() alone and read by
\* get_probe() alone; the thread's exit belongs to SpecProbe.
Spec == Init /\ [][Next]_vars

\* ------------------------------------------------------------ the probe
GetProbe ==
  /\ status = "live"
  /\ Commit([World EXCEPT !.ret = get_probe(backend)], [op |-> "get_probe"])

\* the probe thread dies of a panic inside Probe::from_uri (in the
\* discoverer bindings or the allocator; the body itself has no panic site)
ProbeThreadPanic ==
  /\ probe_thread.st = "Running"
  /\ probe_thread' = [st |-> "Panicked"]
  /\ UNCHANGED <<backend, pipeline, update_receiver, call, ret, issued, status, others>>

NextProbe ==
  \/ Next
  \/ ProbeThreadExit
  \/ ProbeThreadPanic
  \/ GetProbe

SpecProbe == Init /\ [][NextProbe]_vars

\* --------------------------------------------- replaced backends and tasks
\* VidioPlayer::open_uri: self.backend = Some(Backend::init(uri)?).  The uris
\* opened are numbered, each one new.  init spawns the probe thread of the
\* uri before its final stop()?; when that fails, `this` is dropped and the
\* old backend stays; when it succeeds the assignment drops the old backend,
\* and with it the handle of its probe thread (which update() may have
\* taken and joined before).  `old` says whether self.backend is Some: after
\* close_current_player it is None and the assignment drops nothing.
open_uri(w, old, thread, loose, uri, ok_stop, ok_quit) ==
  LET new == init(uri, ok_stop)
      new_thread == from_uri_future(uri)
  IN IF IsErr(new) THEN
       LET d == drop(new, ok_quit)
       IN [w |-> [w EXCEPT !.issued = d.issued,
                           !.ret = IF d.ret = PanicRet THEN PanicRet ELSE new.ret],
           old |-> old,
           thread |-> thread,
           loose |-> Append(loose, new_thread)]
     ELSE
       LET d == IF old THEN drop(w, ok_quit) ELSE [w EXCEPT !.ret = OkRet]
       IN [w |-> [new EXCEPT !.issued = new.issued \o d.issued,
                             !.ret = IF d.ret = PanicRet THEN PanicRet ELSE OkRet],
           old |-> TRUE,
           thread |-> new_thread,
           loose |-> Append(loose, thread)]

\* VidioPlayer::close_current_player: self.backend = None drops the backend
close_current_player(w, ok_quit) ==
  LET d == drop(w, ok_quit)
  IN [d EXCEPT !.ret = IF d.ret = PanicRet THEN PanicRet ELSE OkRet]

OpenUri ==
  /\ status \in {"live", "closed"}
  /\ Len(detached) < MaxOpens
  /\ \E ok_stop, ok_quit \in BOOLEAN :
       LET uri == Len(detached) + 2
           o == open_uri(World, status = "live", probe_thread, detached, uri, ok_stop, ok_quit)
       IN /\ backend' = o.w.self
          /\ pipeline' = o.w.pipeline
          /\ update_receiver' = o.w.rx
          /\ issued' = o.w.issued
          /\ ret' = o.w.ret
          /\ call' = [op |-> "open_uri", uri |-> uri]
          /\ status' = IF o.w.ret.kind = "Panic" THEN "panicked"
                        ELSE IF o.old THEN "live" ELSE "closed"
          /\ probe_thread' = o.thread
          /\ detached' = o.loose
          /\ UNCHANGED <<task, task_threads, extras>>

\* a probe thread whose handle was dropped returns from Probe::from_uri
DetachedExit ==
  /\ \E i \in DOMAIN detached, discovered \in BOOLEAN :
       /\ detached[i].st = "Running"
       /\ detached' = [detached EXCEPT ![i] = [st |-> "Finished",
                                               result |-> from_uri(detached[i].uri, discovered)]]
  /\ UNCHANGED <<backend, pipeline, update_receiver, call, ret, issued, status, probe_thread,
                 task, task_threads, extras>>

TaskWorld == [self |-> task, threads |-> task_threads, ret |-> OkRet]

CommitTask(t, c) ==
  /\ task' = t.self
  /\ task_threads' = t.threads
  /\ ret' = t.ret
  /\ call' = c
  /\ issued' = <<>>
  /\ UNCHANGED <<backend, pipeline, update_receiver, status, probe_thread, detached, extras>>

\* start_task(func): the tasks are numbered and task k returns k
StartTask ==
  /\ status = "live"
  /\ Len(task_threads) < MaxTasks
  /\ CommitTask(start_task(TaskWorld, Len(task_threads) + 1), [op |-> "start_task"])

Poll ==
  /\ status = "live"
  /\ CommitTask(poll(TaskWorld), [op |-> "poll"])

Check ==
  /\ status = "live"
  /\ CommitTask(check(TaskWorld), [op |-> "check"])

\* a spawned task returns its value or panics
TaskExit ==
  /\ \E h \in DOMAIN task_threads, panics \in BOOLEAN :
       /\ task_threads[h].st = "Running"
       /\ task_threads' = [task_threads EXCEPT ![h] =
                             IF panics THEN [st |-> "Panicked"]
                             ELSE [st |-> "Finished", result |-> task_threads[h].func]]
  /\ UNCHANGED <<backend, pipeline, update_receiver, call, ret, issued, status, probe_thread,
                 detached, task, extras>>

NextStale ==
  \/ OpenUri
  \/ Update
  \/ GetProbe
  \/ ProbeThreadExit
  \/ DetachedExit
  \/ StartTask
  \/ Poll
  \/ Check
  \/ TaskExit

SpecStale == Init /\ [][NextStale]_vars

\* ------------------------------------------------- a TaskOrData, recorded
\* A TaskOrData made by default() or by with_data(0), under start_task,
\* poll, check and reset and the exits of its tasks; the values check()
\* returned as JustBecameAvailable are recorded in `announced`.
InitTask ==
  /\ LET w == init(1, TRUE)
     IN /\ backend = w.self
        /\ pipeline = w.pipeline
        /\ update_receiver = w.rx
        /\ issued = w.issued
        /\ ret = w.ret
  /\ call = [op |-> "init"]
  /\ status = "live"
  /\ target_os = "windows"
  /\ probe_thread = from_uri_future(1)
  /\ detached = <<>>
  /\ task \in {TaskOrDataDefault, with_data(0)}
  /\ task_threads = <<>>
  /\ produced = <<>>
  /\ delivered = <<>>
  /\ announced = {}
  /\ temp_settings = TempSettingsDefault
  /\ viewport = ViewportDefault

CheckAnnounce ==
  /\ status = "live"
  /\ LET t == check(TaskWorld)
     IN /\ task' = t.self
        /\ task_threads' = t.threads
        /\ ret' = t.ret
        /\ call' = [op |-> "check"]
        /\ issued' = <<>>
        /\ announced' = IF t.ret.kind = "JustBecameAvailable"
                         THEN announced \cup {t.ret.value} ELSE announced
  /\ UNCHANGED <<backend, pipeline, update_receiver, status, probe_thread, detached,
                 target_os, produced, delivered, gui>>

Reset ==
  /\ status = "live"
  /\ CommitTask(reset(TaskWorld), [op |-> "reset"])

NextTask ==
  \/ StartTask
  \/ Poll
  \/ CheckAnnounce
  \/ Reset
  \/ TaskExit

SpecTask == InitTask /\ [][NextTask]_vars

\* ------------------------------------------- backward steps, as a function
\* seek_frames(-N) computes its target from latest_timecode and latest_info
\* alone.  InitFrames draws the two from the values handle_update can have
\* cached: nothing yet (no info, timecode ZERO), or the info and pts of a
\* delivered frame; the pipeline stands at the cached timecode.
FrameRates == {StreamInfo(p) : p \in 0 .. 1}

InitFrames ==
  /\ \E tc \in 0 .. MaxTimecode, info \in {None} \cup {Some(r) : r \in FrameRates} :
       /\ info = None => tc = 0
       /\ backend = [latest_info |-> info,
                     latest_timecode |-> tc,
                     target_state |-> "Paused",
                     frame_queue_info |-> [queued |-> FALSE, start_state |-> "Paused",
                                           in_progress |-> FALSE],
                     playback_speed |-> InitSpeed,
                     probe |-> Err([msg |-> "Not initialized yet"]),
                     probe_future |-> Some("JoinHandle"),
                     current_volume |-> InitVolume,
                     current_audio_device |-> None]
       /\ pipeline = [uri |-> 1, state |-> "Paused", position |-> tc,
                      volume |-> ElementDefaultVolume, device |-> None,
                      flags |-> DefaultPlayFlags]
  /\ update_receiver = <<>>
  /\ call = [op |-> "init"]
  /\ ret = OkRet
  /\ issued = <<>>
  /\ status = "live"
  /\ target_os = "windows"
  /\ produced = <<>>
  /\ delivered = <<>>
  /\ announced = {}
  /\ temp_settings = TempSettingsDefault
  /\ viewport = ViewportDefault
  /\ probe_thread = from_uri_future(1)
  /\ detached = <<>>
  /\ task = TaskOrDataDefault
  /\ task_threads = <<>>

SeekFramesBack ==
  /\ status = "live"
  /\ \E frames \in -MaxBack .. -1, ok, overflow_checks \in BOOLEAN :
       Commit(seek_frames(World, frames, ok, overflow_checks),
              [op |-> "seek_frames", frames |-> frames])

NextFrames == SeekFramesBack

SpecFrames == InitFrames /\ [][NextFrames]_vars

\* The backward steps over the i32 range: the small counts, and the two
\* ends of the range, -(2^31 - 1) and i32::MIN.
I32Negatives == (-MaxBack .. -1) \cup {I32Min, I32Min + 1}

SeekFramesI32 ==
  /\ status = "live"
  /\ \E frames \in I32Negatives, ok, overflow_checks \in BOOLEAN :
       Commit(seek_frames(World, frames, ok, overflow_checks),
              [op |-> "seek_frames", frames |-> frames])

NextI32 == SeekFramesI32

SpecI32 == InitFrames /\ [][NextI32]_vars

\* ----------------------------------------------------------- the volume
\* set_volume is a method of the public trait; the values passed to it are
\* the caller's: below the advertised range, its two ends, inside it, above
\* it, and above the element's own range.
Volumes == {-ElementDefaultVolume, 0, InitVolume, 2 * InitVolume,
            2 * InitVolume + ElementDefaultVolume, 11 * ElementDefaultVolume}

SetVolume ==
  /\ status = "live"
  /\ \E to \in Volumes, keeps \in BOOLEAN :
       Commit(set_volume(World, to, keeps), [op |-> "set_volume", to |-> to])

NextVolume ==
  \/ SetVolume
  \/ Start
  \/ Stop
  \/ Quit
  \/ QueueFrameUpdate

SpecVolume == Init /\ [][NextVolume]_vars

\* --------------------------------------------------------------- teardown
\* status "closed": the player's backend is None; the variables keep what
\* the dropped backend held, and no method can be called on it.
CloseCurrentPlayer ==
  /\ status = "live"
  /\ \E ok_quit \in BOOLEAN :
       LET w == close_current_player(World, ok_quit)
       IN /\ issued' = w.issued
          /\ ret' = w.ret
          /\ pipeline' = w.pipeline
          /\ backend' = w.self
          /\ call' = [op |-> "close_current_player"]
          /\ status' = IF w.ret.kind = "Panic" THEN "panicked" ELSE "closed"
  /\ UNCHANGED <<update_receiver, probe_thread, others>>

NextTeardown ==
  \/ OpenUri
  \/ CloseCurrentPlayer
  \/ Quit
  \/ Start
  \/ Stop
  \/ QueueFrameUpdate
  \/ Update
  \/ NewSampleSend
  \/ NewSampleTimeout

SpecTeardown == Init /\ [][NextTeardown]_vars

\* ------------------------------------------------- a backend left to update()
\* After init (at construction, or by open_uri) the caller only polls:
\* update() every tick, the pipeline accepting or rejecting the state
\* changes update() asks for, the probe thread finishing at some time.
NextFresh ==
  \/ OpenUri
  \/ Update
  \/ NewSampleSend
  \/ NewSampleTimeout
  \/ ProbeThreadExit

SpecFresh == Init /\ [][NextFresh]_vars

\* ------------------------------------------------------ a fetch, polled
\* The states in which a forced fetch is queued and not begun: the target
\* state any of the three the caller can have asked for, the pipeline in it;
\* the frame cached by handle_update none yet or that of a delivered frame,
\* with the start_state an earlier fetch left; the pipeline before the end
\* of the media, the channel empty or holding a frame it produced earlier.
TargetStates == {"Paused", "Playing", "Null"}

InitFetch ==
  /\ \E target \in TargetStates, position \in 0 .. MaxPos - 1, latest \in 0 .. 2,
        saved \in TargetStates :
       /\ backend = [latest_info |-> IF latest = 0 THEN None ELSE Some(StreamInfo(latest - 1)),
                     latest_timecode |-> IF latest = 0 THEN 0 ELSE latest - 1,
                     target_state |-> target,
                     frame_queue_info |-> [queued |-> TRUE,
                                           start_state |-> IF latest = 0 THEN "VoidPending"
                                                           ELSE saved,
                                           in_progress |-> FALSE],
                     playback_speed |-> InitSpeed,
                     probe |-> Err([msg |-> "Not initialized yet"]),
                     probe_future |-> Some("JoinHandle"),
                     current_volume |-> InitVolume,
                     current_audio_device |-> None]
       /\ pipeline = [uri |-> 1, state |-> target, position |-> position,
                      volume |-> ElementDefaultVolume, device |-> None,
                      flags |-> DefaultPlayFlags]
       /\ update_receiver \in {<<>>} \cup {<<from_sample(p)>> : p \in 0 .. position - 1}
  /\ call = [op |-> "queue_frame_update"]
  /\ ret = OkRet
  /\ issued = <<>>
  /\ status = "live"
  /\ target_os = "windows"
  /\ probe_thread = from_uri_future(1)
  /\ detached = <<>>
  /\ task = TaskOrDataDefault
  /\ task_threads = <<>>
  /\ produced = <<>>
  /\ delivered = <<>>
  /\ announced = {}
  /\ temp_settings = TempSettingsDefault
  /\ viewport = ViewportDefault

\* update(), the pipeline accepting every state change it asks for
UpdateAccepted ==
  /\ status = "live"
  /\ Commit(update(World, TRUE, TRUE, probe_thread), [op |-> "update"])

NextFetch ==
  \/ UpdateAccepted
  \/ NewSampleSend
  \/ NewSampleTimeout

\* The caller keeps calling update(), and a started pipeline with room in
\* the channel keeps producing.
SpecFetch ==
  /\ InitFetch
  /\ [][NextFetch]_vars
  /\ WF_vars(UpdateAccepted)
  /\ WF_vars(NewSampleSend)

\* ------------------------------------------------- the frames, recorded
\* The callback and update() as in Spec, with every sample the callback
\* pulled recorded in `produced` (and whether it was sent or dropped) and
\* every frame update() returned in `delivered`.
NewSample ==
  /\ status = "live"
  /\ pipeline.state = "Playing"
  /\ pipeline.position < MaxPos
  /\ Len(produced) < MaxFrames
  /\ LET n == new_sample(pipeline, update_receiver)
     IN /\ update_receiver' = n.rx
        /\ pipeline' = n.pipeline
        /\ produced' = Append(produced, [frame |-> n.up_info, sent |-> n.sent])
  /\ UNCHANGED <<backend, call, ret, issued, status, probe_thread, detached, task,
                 task_threads, target_os, delivered, announced, gui>>

UpdateDelivers ==
  /\ status = "live"
  /\ \E ok1, ok2 \in BOOLEAN :
       LET w == update(World, ok1, ok2, probe_thread)
       IN /\ CommitBackend(w, [op |-> "update"])
          /\ delivered' = IF w.ret.kind = "Frame" THEN Append(delivered, w.ret.frame)
                           ELSE delivered
  /\ UNCHANGED <<probe_thread, detached, task, task_threads, target_os, produced,
                 announced, gui>>

NextChannel ==
  \/ NewSample
  \/ UpdateDelivers
  \/ Start
  \/ Stop
  \/ QueueFrameUpdate
  \/ SeekTime

SpecChannel == Init /\ [][NextChannel]_vars

\* -------------------------------------------------------- the play flags
\* The masks passed as `flag`: single flags, among them one that is on and
\* one that is off in a new playbin and the highest, and a two-flag mask.
FlagMasks ==
  {PlayFlags.VIDEO, PlayFlags.SUBTITLES, PlayFlags.VIS, PlayFlags.FORCE_SW_DECODERS,
   bitor(PlayFlags.AUDIO, PlayFlags.SUBTITLES)}

TogglePlayflag ==
  /\ status = "live"
  /\ \E set_to \in BOOLEAN, flag \in FlagMasks :
       Commit(toggle_playflag(World, set_to, flag),
              [op |-> "toggle_playflag", set_to |-> set_to, flag |-> flag])

GetPlayflagState ==
  /\ status = "live"
  /\ \E flag \in FlagMasks :
       Commit([World EXCEPT !.ret = get_playflag_state(World, flag)],
              [op |-> "get_playflag_state", flag |-> flag])

NextFlags ==
  \/ TogglePlayflag
  \/ GetPlayflagState
  \/ Start
  \/ Stop

SpecFlags == Init /\ [][NextFlags]_vars

\* ------------------------------------------------------------ the window
\* VidioPlayer::show with a backend: update_frame, then show_internal.  A
\* panic of update() ends the frame before the window is dealt with.  The
\* menu bar shows its menus (menubar_inner) only when get_probe() is Ok, and
\* the label of the error otherwise.
Show ==
  /\ status = "live"
  /\ \E ok1, ok2 \in BOOLEAN, event \in PointerEvents :
       LET w == update_frame(World, ok1, ok2, probe_thread)
           g == show_internal(temp_settings, viewport, event)
           panicked == w.ret.kind = "Panic"
       IN /\ event = "menu_fullscreen" => get_probe(w.self).kind = "Ok"
          /\ CommitBackend([w EXCEPT !.ret = IF panicked THEN PanicRet ELSE OkRet],
                           [op |-> "show", event |-> event])
          /\ temp_settings' = IF panicked THEN temp_settings ELSE g.temp_settings
          /\ viewport' = IF panicked THEN viewport ELSE g.viewport
  /\ UNCHANGED <<probe_thread, detached, task, task_threads, target_os, produced, delivered,
                 announced>>

\* set_fullscreen(to), called by the application between two frames
SetFullscreen ==
  /\ status = "live"
  /\ \E to \in BOOLEAN :
       /\ temp_settings' = set_fullscreen(temp_settings, to)
       /\ call' = [op |-> "set_fullscreen", to |-> to]
  /\ ret' = OkRet
  /\ issued' = <<>>
  /\ UNCHANGED <<backend, pipeline, update_receiver, status, probe_thread, detached, task,
                 task_threads, target_os, produced, delivered, announced, viewport>>

NextGui ==
  \/ Show
  \/ SetFullscreen
  \/ NewSampleSend
  \/ NewSampleTimeout
  \/ ProbeThreadExit

SpecGui == Init /\ [][NextGui]_vars

\* ------------------------------------------------------ the audio devices
\* The targets the crate may be built for.
TargetOses == {"windows", "linux"}

\* the ids of the render devices of the machine
AudioDevices == {"speakers", "headset"}

Device(name, id) == [ok |-> TRUE, name |-> name, id |-> id]

\* what wasapi::DeviceCollection::new(Render) may give
DeviceCollections ==
  { None,
    Some(<<>>),
    Some(<<Device(Some("Speakers"), Some("speakers"))>>),
    Some(<<[ok |-> FALSE], Device(Some("Headset"), Some("headset"))>>),
    Some(<<Device(Some("Speakers"), Some("speakers")), Device(None, Some("headset"))>>),
    Some(<<Device(Some("Speakers"), None)>>) }

InitAudio ==
  /\ Constructed
  /\ target_os \in TargetOses
  /\ status = build(target_os)

SetAudioDevice ==
  /\ status = "live"
  /\ \E device \in AudioDevices, ok1, made, ok2, ok3 \in BOOLEAN :
       Commit(set_audio_device(World, device, ok1, made, ok2, ok3),
              [op |-> "set_audio_device", device |-> device])

ListAudioDevices ==
  /\ status = "live"
  /\ \E device_collection \in DeviceCollections :
       Commit(list_audio_devices(World, device_collection), [op |-> "list_audio_devices"])

NextAudio ==
  \/ SetAudioDevice
  \/ ListAudioDevices
  \/ SetVolume
  \/ Start
  \/ Stop
  \/ Quit

SpecAudio == InitAudio /\ [][NextAudio]_vars

\* ---------------------------------------------------------------- claims
fqi == backend.frame_queue_info

\* The steps that are calls of one method.  The history variable is tested
\* first, the action itself last.
IsUpdate == call'.op = "update" /\ Update

\* the call took a frame out of the channel
TookFrame == Len(update_receiver') < Len(update_receiver)

StartAccepted == [req |-> "set_state", state |-> "Playing", ok |-> TRUE]
StartRejected == [req |-> "set_state", state |-> "Playing", ok |-> FALSE]

\* C1: forced fetch, phase 1.  An update() called with queued, not
\* in_progress, on an empty channel, whose Playing request the pipeline
\* accepts, returns the channel-empty error and leaves queued and
\* in_progress set, start_state equal to the target_state held before the
\* call, and target_state = Playing.
C1_ForcedFetchPhase1 ==
  [][ ( /\ fqi.queued /\ ~fqi.in_progress
        /\ update_receiver = <<>>
        /\ issued' = <<StartAccepted>>
        /\ IsUpdate )
      => ( /\ ret' = ErrRet("ChannelEmpty")
           /\ backend'.frame_queue_info =
                [queued |-> TRUE, in_progress |-> TRUE, start_state |-> backend.target_state]
           /\ backend'.target_state = "Playing"
           /\ pipeline'.state = "Playing" ) ]_vars

\* C1 witness: phase 1 has run from the Paused state.
C1_Witness ==
  /\ call = [op |-> "update"]
  /\ issued = <<StartAccepted>>
  /\ ret = ErrRet("ChannelEmpty")
  /\ fqi = [queued |-> TRUE, in_progress |-> TRUE, start_state |-> "Paused"]
  /\ backend.target_state = "Playing"

\* C2 (as claimed): the update() that takes the frame of a queued fetch
\* clears queued and in_progress and leaves target_state equal to the state
\* S held when the fetch began: start_state when an earlier call began it,
\* the current target_state when this same call begins it.  Stated here for
\* the calls whose pipeline requests are all accepted, which is the weaker
\* statement: it fails already.
C2_RestoresPreFetchState ==
  [][ ( /\ fqi.queued
        /\ TookFrame
        /\ \A i \in DOMAIN issued' : issued'[i].ok
        /\ IsUpdate )
      => LET S == IF fqi.in_progress THEN fqi.start_state ELSE backend.target_state
         IN /\ ~backend'.frame_queue_info.queued
            /\ ~backend'.frame_queue_info.in_progress
            /\ backend'.target_state = S ]_vars

\* C3 (as claimed): every update() that returns the channel error leaves
\* queued = true, does not clear in_progress and does not overwrite a
\* start_state an earlier call saved; the flags are cleared only by an
\* update() that took a frame, both together.
C3_RecvErrorKeepsFlags_Original ==
  [][ /\ ( ret' = ErrRet("ChannelEmpty") /\ IsUpdate )
         => /\ backend'.frame_queue_info.queued
            /\ fqi.in_progress => backend'.frame_queue_info.in_progress
            /\ fqi.start_state # "VoidPending"
                 => backend'.frame_queue_info.start_state = fqi.start_state
      /\ ( \/ fqi.queued /\ ~backend'.frame_queue_info.queued
           \/ fqi.in_progress /\ ~backend'.frame_queue_info.in_progress )
         => /\ TookFrame
            /\ ~backend'.frame_queue_info.queued
            /\ ~backend'.frame_queue_info.in_progress
            /\ IsUpdate ]_vars

\* C3 (amended): an update() that returns the channel error leaves queued as
\* it was (true when a fetch was queued, false on the plain poll), does not
\* clear in_progress and, when a fetch was already in progress, does not
\* change start_state; the call that begins a fetch writes start_state
\* before it returns the error.  The flags are cleared only by an update()
\* that took a frame, both together.
C3_RecvErrorKeepsFlags ==
  [][ /\ ( ret' = ErrRet("ChannelEmpty") /\ IsUpdate )
         => /\ backend'.frame_queue_info.queued = fqi.queued
            /\ fqi.in_progress => backend'.frame_queue_info.in_progress
            /\ fqi.in_progress
                 => backend'.frame_queue_info.start_state = fqi.start_state
            /\ (fqi.queued /\ ~fqi.in_progress)
                 => /\ backend'.frame_queue_info.in_progress
                    /\ backend'.frame_queue_info.start_state = backend.target_state
      /\ ( \/ fqi.queued /\ ~backend'.frame_queue_info.queued
           \/ fqi.in_progress /\ ~backend'.frame_queue_info.in_progress )
         => /\ TookFrame
            /\ ~backend'.frame_queue_info.queued
            /\ ~backend'.frame_queue_info.in_progress
            /\ IsUpdate ]_vars

\* C3 witness: a fetch in progress has polled an empty channel again (no
\* request issued: the call took the in_progress branch) and the fetch is
\* still in progress.
C3_Witness ==
  /\ call = [op |-> "update"]
  /\ issued = <<>>
  /\ ret = ErrRet("ChannelEmpty")
  /\ fqi.queued /\ fqi.in_progress
  /\ fqi.start_state = "Paused"

\* C4 (as claimed): the update() that sets in_progress has force-started the
\* pipeline: its Playing request was accepted.
C4_InProgressMeansStarted ==
  [][ ( /\ ~fqi.in_progress
        /\ backend'.frame_queue_info.in_progress
        /\ IsUpdate )
      => /\ issued' = <<StartAccepted>>
         /\ pipeline'.state = "Playing" ]_vars

C6_StateQueriesReportTarget ==
  /\ is_playing(backend) <=> get_predicted_state(backend) = "Playing"
  /\ is_paused(backend) <=> get_predicted_state(backend) = "Paused"

\* C7 (as claimed): Stopped is terminal.  Once target_state is Null (only a
\* successful quit() sets it) no call moves target_state or the state
\* requested from the pipeline away from Null.
C7_StoppedIsTerminal ==
  [][ backend.target_state = "Null"
      => /\ backend'.target_state = "Null"
         /\ pipeline'.state = "Null" ]_vars

IsStart == call'.op = "start" /\ Start
IsStop == call'.op = "stop" /\ Stop
IsQuit == call'.op = "quit" /\ Quit

\* what start(), stop() and quit() promise for the state `st` they request
StateRequestContract(st) ==
  /\ Len(issued') = 1
  /\ issued'[1].req = "set_state" /\ issued'[1].state = st
  /\ IF issued'[1].ok
     THEN /\ ret' = OkRet
          /\ backend'.target_state = st
          /\ pipeline'.state = st
     ELSE /\ ret' = ErrRet("StateChangeError")
          /\ backend'.target_state = backend.target_state
          /\ pipeline'.state = pipeline.state

\* C8: start(), stop() and quit() send one state request (Playing, Paused,
\* Null); when the pipeline accepts it they return Ok with target_state set
\* to that state at once, when it rejects it they return the error and
\* target_state is unchanged.
C8_TargetStateFollowsAcceptedRequest ==
  [][ /\ IsStart => StateRequestContract("Playing")
      /\ IsStop => StateRequestContract("Paused")
      /\ IsQuit => StateRequestContract("Null") ]_vars

\* C8 witness: a stop() the pipeline rejected, made while playing.
C8_Witness ==
  /\ call = [op |-> "stop"]
  /\ issued = <<[req |-> "set_state", state |-> "Paused", ok |-> FALSE]>>
  /\ ret = ErrRet("StateChangeError")
  /\ backend.target_state = "Playing"

IsSeekTimeline == call'.op = "seek_timeline" /\ SeekTimeline

\* C9: seek_timeline() called while a forced fetch is in progress issues no
\* seek, changes nothing and returns Ok; called otherwise it issues exactly
\* one seek, to the requested position.
C9_SeekTimelineSuppressedInProgress ==
  [][ IsSeekTimeline
      => IF fqi.in_progress
         THEN /\ issued' = <<>>
              /\ ret' = OkRet
              /\ backend' = backend
              /\ pipeline' = pipeline
              /\ update_receiver' = update_receiver
         ELSE /\ Len(issued') = 1
              /\ issued'[1].req = "seek"
              /\ issued'[1].pos = call'.seek_to ]_vars

\* C9 witness: a seek_timeline() made with a fetch in progress.
C9_Witness ==
  /\ call.op = "seek_timeline"
  /\ fqi.in_progress
  /\ issued = <<>>
  /\ ret = OkRet

IsSeekFrames == call'.op = "seek_frames" /\ SeekFrames

\* C10: seek_frames(0) panics: it sends nothing to the pipeline, leaves the
\* backend (the queued flag included) as it was and does not return Ok.
C10_SeekZeroFramesPanics ==
  [][ ( call'.op = "seek_frames" /\ call'.frames = 0 /\ IsSeekFrames )
      => /\ ret' = PanicRet
         /\ status' = "panicked"
         /\ issued' = <<>>
         /\ backend' = backend
         /\ pipeline' = pipeline ]_vars

\* C10 witness: seek_frames(0) was called with nothing queued.
C10_Witness ==
  /\ call = [op |-> "seek_frames", frames |-> 0]
  /\ ret = PanicRet
  /\ status = "panicked"
  /\ ~fqi.queued

C12_FrameStepQueuesFetch ==
  [][ ( call'.op = "seek_frames" /\ call'.frames # 0 /\ SeekFrames )
      => /\ Len(issued') = 1
         /\ IF ret' = OkRet
            THEN /\ backend'.frame_queue_info.queued
                 /\ IF call'.frames > 0
                    THEN issued'[1].req = "step" /\ issued'[1].buffers = call'.frames
                    ELSE issued'[1].req = "seek" /\ issued'[1].flags = "FLUSH" /\ issued'[1].ok
            ELSE /\ call'.frames < 0
                 /\ issued'[1].req = "seek" /\ ~issued'[1].ok
                 /\ ret' = ErrRet("SeekError")
                 /\ backend'.frame_queue_info.queued = fqi.queued
         /\ ( call'.frames < 0 /\ ~issued'[1].ok ) => ret' # OkRet ]_vars

\* C12 witness: a backward step made after the first fetch was completed
\* (a frame is cached) has queued the next one.
C12_Witness ==
  /\ call = [op |-> "seek_frames", frames |-> -1]
  /\ ret = OkRet
  /\ backend.latest_info # None
  /\ fqi.queued /\ ~fqi.in_progress
  /\ Len(issued) = 1 /\ issued[1].req = "seek"

IsChangePlaybackSpeed == call'.op = "change_playback_speed" /\ ChangePlaybackSpeed

\* C13 (as claimed): change_playback_speed anchors the new rate at the
\* pipeline's position at the moment of the call.  Stated in its weakest
\* form: the position passed to the rate-changing seek is not ahead of the
\* pipeline's position and not a whole frame or more behind it.
C13_SpeedChangeAnchorsAtPosition ==
  [][ IsChangePlaybackSpeed
      => /\ Len(issued') = 1
         /\ issued'[1].req = "seek"
         /\ issued'[1].pos <= pipeline.position
         /\ pipeline.position - issued'[1].pos <= 1 ]_vars

\* C14: the playback speed persists.  It is 1.0 after init; a successful
\* change_playback_speed(s) leaves current_playback_speed() = s; no step
\* that is not a change_playback_speed call (start, stop, quit, update,
\* the seeks, queue_frame_update, the frame callback) changes it, and every
\* seek such a step issues (seek_time, seek_timeline, backward seek_frames)
\* carries that rate.
C14_PlaybackSpeedPersists ==
  /\ []( call.op = "init" => current_playback_speed(backend) = InitSpeed )
  /\ [][ /\ ( IsChangePlaybackSpeed /\ ret' = OkRet )
             => current_playback_speed(backend') = call'.speed
         /\ ~IsChangePlaybackSpeed
             => /\ current_playback_speed(backend') = current_playback_speed(backend)
                /\ \A i \in DOMAIN issued' :
                     issued'[i].req = "seek"
                     => issued'[i].rate = current_playback_speed(backend) ]_vars

\* C14 witness: with the speed changed to 2.0 and the backend playing, a
\* seek_time carries rate 2.0.
C14_Witness ==
  /\ call.op = "seek_time"
  /\ backend.target_state = "Playing"
  /\ current_playback_speed(backend) = 2 * InitSpeed
  /\ Len(issued) = 1
  /\ issued[1].rate = 2 * InitSpeed

\* C15 (as claimed): set_volume clamps to the advertised range, so that in
\* every reachable state get_current_volume() and the volume applied to the
\* pipeline's volume element lie within get_volume_range().
C15_VolumeWithinRange ==
  LET range == get_volume_range(backend)
  IN /\ range.start <= get_current_volume(backend)
     /\ get_current_volume(backend) <= range.end
     /\ range.start <= pipeline.volume
     /\ pipeline.volume <= range.end

NotInitializedYet == ErrRet([msg |-> "Not initialized yet"])

\* C16: as long as update() has not collected the probe thread
\* (probe_future is still Some), get_probe() returns the "Not initialized
\* yet" error, whatever has been called and whether or not the thread has
\* finished; the last get_probe() call made returned it and left the
\* backend running.
C16_ProbeNotReadyBeforeCollected ==
  ( status = "live" /\ backend.probe_future # None )
  => /\ get_probe(backend) = NotInitializedYet
     /\ call.op = "get_probe" => ret = NotInitializedYet

\* C16 witness: get_probe() called while playing, with a frame delivered
\* and the probe thread finished but not yet collected.
C16_Witness ==
  /\ call.op = "get_probe"
  /\ ret = NotInitializedYet
  /\ probe_thread.st = "Finished"
  /\ backend.probe_future # None
  /\ backend.target_state = "Playing"
  /\ backend.latest_info # None

\* C17: the probe becomes available exactly once.  An update() called with
\* the probe thread finished and not yet collected stores the thread's
\* result in probe and consumes the handle, whatever the call returns;
\* once the handle is consumed neither probe nor probe_future changes
\* again, get_probe() reports the thread's result, and the thread, once
\* finished, is never run again.
C17_ProbeCachedOnce ==
  /\ [][ ( /\ call'.op = "update"
           /\ backend.probe_future # None
           /\ probe_thread.st = "Finished"
           /\ Update )
         => /\ backend'.probe = probe_thread.result
            /\ backend'.probe_future = None ]_vars
  /\ [][ ( status = "live" /\ backend.probe_future = None )
         => /\ backend'.probe = backend.probe
            /\ backend'.probe_future = None ]_vars
  /\ [][ probe_thread.st # "Running" => probe_thread' = probe_thread ]_vars
  /\ []( ( status = "live" /\ backend.probe_future = None )
         => /\ probe_thread.st = "Finished"
            /\ backend.probe = probe_thread.result
            /\ get_probe(backend) = IF probe_thread.result.ok
                                    THEN [kind |-> "Ok", value |-> probe_thread.result.v]
                                    ELSE ErrRet(probe_thread.result.err)
            /\ call.op = "get_probe" => ret = get_probe(backend) )

\* C17 witness: the state right after an update() that returned the
\* channel-empty error, with the probe of the uri cached and the handle
\* consumed.
C17_Witness ==
  /\ call = [op |-> "update"]
  /\ ret = ErrRet("ChannelEmpty")
  /\ backend.probe_future = None
  /\ backend.probe = from_uri(1, TRUE)

\* C18 (as claimed): a panic of the probe thread is fatal to the probe
\* attempt only.  An update() called with the thread panicked does not
\* panic itself and the backend goes on working.
C18_ProbeCrashNotFatal ==
  [][ ( call'.op = "update" /\ probe_thread.st = "Panicked" /\ Update )
      => /\ ret' # PanicRet
         /\ status' = "live" ]_vars

\* C19: a stale task never overwrites newer state.  The probe thread a
\* backend tracks is the one of the uri its pipeline plays, and so is every
\* probe result, Ok or discovery error, that it caches or get_probe()
\* returns; a TaskOrData tracks the task started last, and the data it
\* holds or check() returns is that task's.
C19_StaleTaskNeverObserved ==
  status = "live"
  => /\ ( backend.probe_future # None /\ probe_thread.st = "Running" )
        => probe_thread.uri = pipeline.uri
     /\ backend.probe.ok => backend.probe.v.uri = pipeline.uri
     /\ ( ~backend.probe.ok /\ backend.probe.err.msg = "discovery failed" )
        => backend.probe.err.uri = pipeline.uri
     /\ ( call.op = "get_probe" /\ ret.kind = "Ok" ) => ret.value.uri = pipeline.uri
     /\ ( call.op = "get_probe" /\ ret.kind = "Err" /\ ret.err.msg = "discovery failed" )
        => ret.err.uri = pipeline.uri
     /\ IsRight(task.inner) => task.inner[1].right = Len(task_threads)
     /\ IsLeft(task.inner) => task.inner[1].left = Len(task_threads)
     /\ ( call.op = "check" /\ ret.kind \in {"JustBecameAvailable", "Available"} )
        => ret.value = Len(task_threads)

\* C19 witness: the probe thread of the replaced backend and the first task
\* have both finished after their successors were started, and get_probe()
\* has just returned the probe of the new uri while the TaskOrData holds
\* the second task's value.
C19_Witness ==
  /\ Len(detached) = 1 /\ detached[1].st = "Finished" /\ detached[1].result.ok
  /\ call.op = "get_probe" /\ ret.kind = "Ok" /\ ret.value.uri = 2
  /\ Len(task_threads) = 2
  /\ task_threads[1] = [st |-> "Finished", result |-> 1]
  /\ task.inner = Some(Left(2))

\* C20 (as claimed): a mutating operation (start, stop, quit, seek_time,
\* seek_timeline, seek_frames, change_playback_speed) whose request the
\* pipeline rejected has not returned Ok.
C20_RejectionIsReturned ==
  ( /\ call.op \in {"start", "stop", "quit", "seek_time", "seek_timeline", "seek_frames",
                    "change_playback_speed"}
    /\ \E i \in DOMAIN issued : ~issued[i].ok )
  => ret # OkRet

\* C21: on a target without the audio-device API the program is built, and
\* its set_audio_device() and list_audio_devices() return an "unsupported"
\* error at run time and leave the pipeline state, current_audio_device and
\* the volume as they were.
C21_UnsupportedIsRuntimeError ==
  target_os # "windows" =>
    /\ status = "live"
    /\ call.op \in {"set_audio_device", "list_audio_devices"} =>
         /\ ret = ErrRet("Unsupported")
         /\ issued = <<>>
         /\ get_current_audio_device(backend) = None

\* C22: update() never waits on another thread.  In every state it returns
\* (a frame, an error, or the panic of C18), whatever the flags, the channel
\* and the probe thread are; it takes at most the frame at the head of the
\* channel and takes none from an empty channel, returning the error at
\* once; and it takes the probe thread's handle to join it only when the
\* thread is no longer running.
C22_UpdateNeverWaits ==
  /\ [][IsUpdate =>
          /\ (backend.probe_future # None /\ backend'.probe_future = None)
                => probe_thread.st # "Running"
          /\ \/ update_receiver' = update_receiver
             \/ update_receiver # <<>> /\ update_receiver' = Tail(update_receiver)
          /\ update_receiver = <<>> => ret'.kind \in {"Err", "Panic"}]_vars
  /\ [](status = "live" =>
          \A ok1, ok2 \in BOOLEAN :
            update(World, ok1, ok2, probe_thread).ret.kind \in {"Frame", "Err", "Panic"})

\* a fetch in progress, the probe collected from the finished thread, and
\* an update() that found the channel empty and returned
C22_Witness ==
  /\ call.op = "update"
  /\ ret = ErrRet("ChannelEmpty")
  /\ fqi.queued /\ fqi.in_progress
  /\ probe_thread.st = "Finished"
  /\ backend.probe_future = None
  /\ update_receiver = <<>>

\* the frames the callback sent, in order
SentFrames ==
  LET Sent(r) == r.sent
      s == SelectSeq(produced, Sent)
  IN [i \in 1 .. Len(s) |-> s[i].frame]

\* a is b with some elements left out
RECURSIVE IsSubseq(_, _)
IsSubseq(a, b) ==
  \/ a = <<>>
  \/ /\ b # <<>>
     /\ IF Head(a) = Head(b) THEN IsSubseq(Tail(a), Tail(b)) ELSE IsSubseq(a, Tail(b))

\* the step is a run of the callback
IsNewSample == Len(produced') = Len(produced) + 1

\* C23: the channel never holds more than ChannelCapacity frames; a callback
\* that finds it full until the timeout drops its frame, leaves the channel
\* as it is and returns, the pipeline moving on; what the channel holds and
\* what update() returned are frames that were sent, never more of them
\* than were sent: a dropped frame is not delivered later.
C23_BoundedChannelDropsOnTimeout ==
  /\ [](Len(update_receiver) <= ChannelCapacity)
  /\ [][IsNewSample =>
          LET last == produced'[Len(produced')]
          IN /\ last.sent = (Len(update_receiver) < ChannelCapacity)
             /\ ~last.sent => update_receiver' = update_receiver
             /\ last.sent => update_receiver' = Append(update_receiver, last.frame)
             /\ pipeline'.position = pipeline.position + 1]_vars
  /\ [](/\ Len(delivered) + Len(update_receiver) <= Len(SentFrames)
        /\ IsSubseq(delivered \o update_receiver, SentFrames))

\* the callback found the channel full and dropped frame 1; later the
\* consumer took frame 0 and, after a seek back, a third sample was sent
C23_Witness ==
  /\ Len(produced) = MaxFrames
  /\ produced[1].sent /\ ~produced[2].sent /\ produced[3].sent
  /\ Len(delivered) = 2

\* C24: frames are delivered in FIFO order and at most once.  With k the
\* number of sent frames no longer in the channel, the channel holds the
\* sent frames after the k-th, in order, and the frames update() returned
\* so far are, in order, frames among the first k, each at most once.
C24_FifoAtMostOnce ==
  LET sent == SentFrames
      k == Len(sent) - Len(update_receiver)
  IN /\ k >= 0
     /\ update_receiver = SubSeq(sent, k + 1, Len(sent))
     /\ Len(delivered) <= k
     /\ IsSubseq(delivered, SubSeq(sent, 1, k))
     /\ IsSubseq(delivered, [i \in 1 .. Len(produced) |-> produced[i].frame])

\* three frames were sent and update() returned the three, two of them
\* different
C24_Witness ==
  /\ Len(SentFrames) = MaxFrames
  /\ delivered = SentFrames
  /\ delivered[1] # delivered[2]

\* C25: when update() returns a frame, timecode() is the frame's timecode
\* and get_latest_vidio_info() its video info; no other step, an update()
\* that returns an error included, changes either.
C25_CachedValuesAreLastFrames ==
  [][/\ (IsUpdate /\ ret'.kind = "Frame") =>
          /\ timecode(backend') = ret'.frame.timecode
          /\ get_latest_vidio_info(backend') = Some(ret'.frame.info)
     /\ (\/ timecode(backend') # timecode(backend)
         \/ get_latest_vidio_info(backend') # get_latest_vidio_info(backend))
          => (call'.op = "update" /\ ret'.kind = "Frame" /\ Update)]_vars

\* update() returned the second frame, whose info differs from the first's
C25_Witness ==
  /\ call.op = "update"
  /\ ret.kind = "Frame"
  /\ ret.frame = from_sample(1)
  /\ timecode(backend) = 1
  /\ get_latest_vidio_info(backend) = Some(StreamInfo(1))

NullRequested(log) ==
  \E i \in DOMAIN log : log[i].req = "set_state" /\ log[i].state = "Null"

\* the state requests a successful init makes
InitRequests == <<[req |-> "set_state", state |-> "Paused", ok |-> TRUE]>>

\* C26: a backend does not cease to exist without Null having been
\* requested from its pipeline: quit() requests it; close_current_player
\* and an open_uri that replaces a backend drop the old one, whose drop
\* requests it after the new backend's init; an init that fails at its
\* final stop() drops the backend it built, whose drop requests it.
C26_TeardownRequestsNull ==
  [][/\ (call'.op = "quit" /\ Quit) => NullRequested(issued')
     /\ (call'.op = "close_current_player" /\ CloseCurrentPlayer) => NullRequested(issued')
     /\ (call'.op = "open_uri" /\ OpenUri) =>
          IF ret'.kind = "Err" \/ (ret'.kind = "Panic" /\ pipeline' = pipeline)
          THEN \* init failed at stop(): the old backend stays, the new one is gone
               /\ backend' = backend
               /\ Len(issued') = 2
               /\ issued'[1] = [req |-> "set_state", state |-> "Paused", ok |-> FALSE]
               /\ issued'[2].state = "Null"
          ELSE /\ pipeline'.uri = call'.uri
               /\ SubSeq(issued', 1, 1) = InitRequests
               /\ status = "live" => Len(issued') = 2 /\ issued'[2].state = "Null"
               /\ status = "closed" => Len(issued') = 1]_vars

\* an init that failed at its final stop(): the backend it built was dropped
\* and its pipeline asked for Null
C26_Witness ==
  /\ call.op = "open_uri"
  /\ ret.kind = "Err"
  /\ status = "live"
  /\ NullRequested(issued)
  /\ pipeline.uri = 1

\* the probe thread has returned and update() has collected its result
ProbeCollected ==
  /\ probe_thread.st = "Finished"
  /\ backend.probe_future = None

\* C27: once discovery has completed and been collected, get_probe()
\* reports its outcome: the cached Result is the one Probe::from_uri
\* returned, Ok with the Probe of the uri or the discoverer's error;
\* get_probe() is Ok with that Probe exactly when discovery was Ok, and
\* otherwise returns an error with the discovery error's message, on every
\* call and without panicking.
C27_ProbeReportsDiscovery ==
  /\ [](ProbeCollected =>
          /\ backend.probe = probe_thread.result
          /\ backend.probe \in {from_uri(pipeline.uri, d) : d \in BOOLEAN}
          /\ get_probe(backend) = IF probe_thread.result.ok
                                   THEN [kind |-> "Ok", value |-> [uri |-> pipeline.uri]]
                                   ELSE ErrRet(probe_thread.result.err))
  /\ [][(call'.op = "get_probe" /\ GetProbe /\ ProbeCollected) =>
          /\ ret' = get_probe(backend)
          /\ ret'.kind = IF probe_thread.result.ok THEN "Ok" ELSE "Err"
          /\ backend' = backend
          /\ status' = "live"]_vars

\* get_probe() returned the error of a failed discovery that update() had
\* collected
C27_Witness ==
  /\ ProbeCollected
  /\ ~probe_thread.result.ok
  /\ call.op = "get_probe"
  /\ ret = ErrRet([msg |-> "discovery failed", uri |-> pipeline.uri])
  /\ status = "live"

\* BackendV2::init has just returned Ok
FreshFromInit ==
  \/ call.op = "init"
  \/ call.op = "open_uri" /\ ret.kind = "Ok"

\* C28: a backend fresh from init has target state Paused and a forced
\* fetch queued and not begun; when only update() is called afterwards, the
\* first frame it returns comes through the forced fetch (the call found
\* queued set), and that call leaves target_state Paused and both flags
\* cleared.
C28_FreshBackendFetchesFirstFrame ==
  /\ [](FreshFromInit =>
          /\ get_predicted_state(backend) = "Paused"
          /\ fqi.queued /\ ~fqi.in_progress)
  /\ [][(IsUpdate /\ get_latest_vidio_info(backend) = None /\ ret'.kind = "Frame") =>
          /\ fqi.queued
          /\ get_predicted_state(backend') = "Paused"
          /\ ~fqi'.queued /\ ~fqi'.in_progress]_vars

\* the fetch has completed: the flags are cleared and the last update()
\* returned the frame, with target_state S
FetchDone(S) ==
  /\ ~fqi.queued /\ ~fqi.in_progress
  /\ call.op = "update" /\ ret.kind = "Frame"
  /\ get_predicted_state(backend) = S

\* C29: a queued fetch, polled by update() alone with the pipeline
\* accepting every state change and producing while started, completes:
\* eventually both flags are cleared, the frame has been returned and
\* target_state is the state S held before the fetch; and the update()
\* that clears queued is the one that returns the frame and restores S.
C29_QueuedFetchCompletes ==
  /\ \A S \in TargetStates :
       (fqi.queued /\ ~fqi.in_progress /\ get_predicted_state(backend) = S) ~> FetchDone(S)
  /\ [][(call'.op = "update" /\ UpdateAccepted /\ fqi.queued /\ ~fqi'.queued) =>
          /\ ret'.kind = "Frame"
          /\ ~fqi'.in_progress
          /\ get_predicted_state(backend') =
                IF fqi.in_progress THEN fqi.start_state ELSE get_predicted_state(backend)]_vars

\* C30: in every reachable state in_progress implies queued, whatever
\* update(), queue_frame_update(), seek, start(), stop() and quit() calls
\* were made and whichever of them returned an error.
C30_InProgressImpliesQueued ==
  fqi.in_progress => fqi.queued

\* a fetch in progress with the pipeline paused, after a seek that returned
\* an error
C30_Witness ==
  /\ fqi.in_progress /\ fqi.queued
  /\ call.op = "seek_time"
  /\ ret = ErrRet("SeekError")
  /\ pipeline.state = "Paused"
  /\ fqi.start_state = "Paused"

\* C31 (as claimed): no frame taken from the channel is lost.  Every
\* update() that removes a frame from the channel returns that frame and
\* records its timecode and info, also when the pipeline rejects the
\* stop()/start() that restores the state after a forced fetch.
C31_NoFrameLost ==
  [][ ( TookFrame /\ IsUpdate )
      => /\ ret' = FrameRet(Head(update_receiver))
         /\ timecode(backend') = Head(update_receiver).timecode
         /\ get_latest_vidio_info(backend') = Some(Head(update_receiver).info) ]_vars

\* C32 (as claimed): the caller's latest play/pause request wins over the
\* forced fetch.  When the last call before the update() that completes a
\* fetch in progress was a start() or stop() the pipeline accepted (so it
\* was made after the update() that began the fetch), that update() leaves
\* target_state at the state that call requested.  Stated for completing
\* calls whose own requests are all accepted.
C32_LatestRequestWins ==
  [][ ( /\ fqi.in_progress
        /\ call.op \in {"start", "stop"}
        /\ ret = OkRet
        /\ TookFrame
        /\ \A i \in DOMAIN issued' : issued'[i].ok
        /\ IsUpdate )
      => get_predicted_state(backend') = IF call.op = "start" THEN "Playing" ELSE "Paused" ]_vars

\* C33 (as claimed): in every reachable state of a running backend
\* target_state (get_predicted_state) is the state most recently requested
\* from the pipeline and accepted by it, also after a set_audio_device()
\* that fails after it has set the pipeline to Null.
C33_TargetStateIsAcceptedState ==
  status = "live" => get_predicted_state(backend) = pipeline.state

\* C34 (as claimed): in every reachable state of a running backend
\* get_current_volume() equals the volume applied to the pipeline's volume
\* element: right after init, after every set_volume(v), and after
\* set_audio_device() has replaced the element.
C34_CurrentVolumeIsApplied ==
  status = "live" => get_current_volume(backend) = pipeline.volume

\* C35 (as claimed): a change_playback_speed(s) that returns an error (the
\* pipeline rejected the rate-changing seek) leaves current_playback_speed()
\* as it was.
C35_FailedSpeedChangeKeepsSpeed ==
  [][ ( ret'.kind = "Err" /\ IsChangePlaybackSpeed )
      => current_playback_speed(backend') = current_playback_speed(backend) ]_vars

\* C36 (as claimed): for every negative frame count N of the i32 range,
\* i32::MIN included, seek_frames(N) issues a seek whose target is not later
\* than the current timecode and not below 0.
C36_BackwardStepNeverForward ==
  [][ ( call'.op = "seek_frames" /\ SeekFramesI32 )
      => /\ Len(issued') = 1
         /\ issued'[1].req = "seek"
         /\ issued'[1].pos <= timecode(backend)
         /\ issued'[1].pos >= 0 ]_vars

IsPoll == call'.op = "poll" /\ Poll

\* C37: TaskOrData::poll().  With the tracked task finished normally it
\* puts the task's value in place of the handle and returns Ok; with the
\* task panicked it returns Err and resets inner to none, so that check()
\* then reports NotInitialized; with the task still running, or no task, it
\* returns Ok and changes nothing.  It never waits: it returns with every
\* thread as it found it, a running one still running.
C37_PollCollectsFinishedTask ==
  [][ IsPoll
      => /\ task_threads' = task_threads
         /\ task'.data_has_been_checked = task.data_has_been_checked
         /\ IF IsRight(task.inner)
            THEN LET in_progress == task_threads[task.inner[1].right]
                 IN CASE in_progress.st = "Finished" ->
                           /\ task'.inner = Some(Left(in_progress.result))
                           /\ ret' = OkRet
                      [] in_progress.st = "Panicked" ->
                           /\ ret'.kind = "Err"
                           /\ task'.inner = None
                           /\ check([self |-> task', threads |-> task_threads',
                                     ret |-> OkRet]).ret.kind = "NotInitialized"
                      [] in_progress.st = "Running" ->
                           /\ ret' = OkRet
                           /\ task' = task
            ELSE /\ ret' = OkRet
                 /\ task' = task ]_vars

\* poll() has returned the Err of the second task, which panicked while the
\* first, superseded one had finished; inner is none again
C37_Witness ==
  /\ call.op = "poll"
  /\ ret.kind = "Err"
  /\ task.inner = None
  /\ Len(task_threads) = 2
  /\ task_threads[1].st = "Finished"
  /\ task_threads[2].st = "Panicked"

\* C38 (as claimed): check() reports JustBecameAvailable exactly once per
\* completed task.  A check() that finds data returns JustBecameAvailable
\* when that data (the initial data, or the value of a task poll()
\* collected) has not been reported yet, and Available when it has; also
\* when the earlier data was checked before start_task() and no check() was
\* made while the new task ran.  (Each task returns a value of its own.)
C38_JustBecameAvailableOncePerTask ==
  [][ ( call'.op = "check" /\ IsLeft(task.inner) /\ CheckAnnounce )
      => /\ ret'.value = task.inner[1].left
         /\ ret'.kind = IF task.inner[1].left \in announced
                        THEN "Available" ELSE "JustBecameAvailable" ]_vars

IsTogglePlayflag == call'.op = "toggle_playflag" /\ TogglePlayflag

\* C39: toggle_playflag(b, f) returns Ok and changes only the bits of f in
\* the pipeline's flags word: every bit of f becomes b, every other bit and
\* everything else stays; afterwards get_playflag_state(g) returns b for
\* every single-bit g of f and what it returned before for every other
\* single-bit flag; the same toggle applied again gives the same word.  A
\* get_playflag_state(f) called right after toggle_playflag(b, f) with a
\* single-bit f returns b and changes nothing.
C39_TogglePlayflagSetsOnlyItsBits ==
  /\ [][ IsTogglePlayflag
         => LET f == call'.flag
                b == call'.set_to
                after == [World EXCEPT !.pipeline = pipeline']
            IN /\ ret' = OkRet
               /\ bitand(pipeline'.flags, bitnot(f)) = bitand(pipeline.flags, bitnot(f))
               /\ \A i \in f : (i \in pipeline'.flags) = b
               /\ pipeline' = [pipeline EXCEPT !.flags = pipeline'.flags]
               /\ backend' = backend
               /\ \A n \in DOMAIN PlayFlags :
                    get_playflag_state(after, PlayFlags[n]).value =
                      IF PlayFlags[n] \subseteq f THEN b
                      ELSE get_playflag_state(World, PlayFlags[n]).value
               /\ toggle_playflag(after, b, f).pipeline = pipeline' ]_vars
  /\ [][ ( /\ call'.op = "get_playflag_state"
           /\ call.op = "toggle_playflag"
           /\ call.flag = call'.flag
           /\ Cardinality(call.flag) = 1
           /\ GetPlayflagState )
         => /\ ret' = [kind |-> "Ok", value |-> call.set_to]
            /\ pipeline' = pipeline
            /\ backend' = backend ]_vars

\* subtitles were switched off after the visualizer had been switched on:
\* the word is the default one with VIS added and SUBTITLES removed
C39_Witness ==
  /\ call = [op |-> "toggle_playflag", set_to |-> FALSE, flag |-> PlayFlags.SUBTITLES]
  /\ ret = OkRet
  /\ pipeline.flags = bitand(bitor(DefaultPlayFlags, PlayFlags.VIS), bitnot(PlayFlags.SUBTITLES))
  /\ get_playflag_state(World, PlayFlags.SUBTITLES).value = FALSE
  /\ get_playflag_state(World, PlayFlags.VIS).value = TRUE

\* C40 (as claimed): fullscreen reconciliation.  After set_fullscreen(x)
\* and the next manage_fullscreen_state() (the one run by the next show();
\* taken here in a frame without a pointer event on the fullscreen
\* widgets), is_fullscreen = x = queued_fullscreen_state, whatever toggles
\* (double click, menu buttons) were queued and not yet applied before the
\* set_fullscreen(x) call.
C40_SetFullscreenIsApplied ==
  [][ ( /\ call.op = "set_fullscreen"
        /\ call'.op = "show"
        /\ call'.event = "none"
        /\ ret' = OkRet
        /\ Show )
      => /\ temp_settings'.is_fullscreen = call.to
         /\ temp_settings'.queued_fullscreen_state = call.to ]_vars

====
